---- MODULE Spec2Model ----
(***************************************************************************)
(* Transaction posting engine of the accounts ledger service.              *)
(*                                                                         *)
(*   cmd/server/transactions.go   transaction, validate, the HTTP          *)
(*                                createTransaction handler, checkBalance, *)
(*                                the SQLite schema (migrations)           *)
(*   unnamed/part_000             sqliteTransactionRepository              *)
(*   unnamed/part_001             sqliteAccountRepository                  *)
(*                                                                         *)
(* The database is modelled by its committed tables (what any reader's     *)
(* database transaction sees) plus, per request, the rows written inside   *)
(* its still open database transaction.  SQLite admits one writer at a     *)
(* time: the first insert of a database transaction takes the write lock   *)
(* and keeps it until commit or rollback.  Every read-only database        *)
(* transaction (GetAccounts, getAccountTransactions) sees one committed    *)
(* snapshot and is one step; GetAccounts is also modelled statement by     *)
(* statement, its open database transaction reading the tables as they     *)
(* were committed at its first statement.                                  *)
(*                                                                         *)
(* time.Now() is a clock that is strictly larger at every reading.  Only   *)
(* transaction_lines.created_at is kept of the timestamps, the one column  *)
(* a query orders by.  Line amounts of 0 are not enumerated.               *)
(*                                                                         *)
(* Amounts are Go ints.  Their width is scaled down to IntBits bits: the   *)
(* sum validate computes wraps around at that width.                       *)
(***************************************************************************)
EXTENDS Integers, Sequences, FiniteSets, TLC

VARIABLES
  accounts,           \* table accounts: account_id of each row, in rowid order
  transactions,       \* table transactions, committed rows in rowid order
  transaction_lines,  \* table transaction_lines, committed rows in rowid order
  pc,                 \* per request: where its handler stands
  tx,                 \* per request: the transaction being posted
  accs,               \* per request: the accounts GetAccounts resolved
  pend,               \* per request: rows written in its open database transaction
  i,                  \* per request: loop index of createTransaction over t.Lines
  err,                \* per request: the error the call returned
  now,                \* the clock behind time.Now()
  started,            \* number of requests received so far
  leaked,             \* a database transaction was abandoned with the write lock held
  chk,                \* input and result of a checkBalance call
  snap                \* per request: what the open read-only database transaction
                      \* of a GetAccounts call sees

vars == <<accounts, transactions, transaction_lines, pc, tx, accs, pend, i, err,
          now, started, leaked, chk, snap>>

ledgerVars == <<accounts, transactions, transaction_lines, pc, tx, accs, pend, i,
                err, now, started, leaked, snap>>

-----------------------------------------------------------------------------
(* Bounds *)

\* lines per posted transaction and largest absolute line amount
MaxLines == 3
MaxAmt == 2
\* requests received in a sequential run
MaxTx == 2
\* the same three bounds for the runs with two concurrent requests
MaxConcLines == 2
MaxConcAmt == 1
MaxConcTx == 3
\* checkBalance inputs: number of resolved accounts and largest absolute balance
MaxChkAccounts == 2
MaxBal == 2
\* width in bits of Go's int, scaled down: amounts and their sums wrap around
\* at this width as they do at 64 bits
IntBits == 4
\* requests received in a run with amounts at the limits of int
MaxIntTx == 1

MinInt == 0 - 2 ^ (IntBits - 1)
MaxInt == 2 ^ (IntBits - 1) - 1

Procs == {1, 2}
AccountIds == {"A", "B"}
Purposes == {"transfer"}

\* SQL NULL
NULL == <<>>

-----------------------------------------------------------------------------
(* Values *)

LinesOf(maxAmt) ==
  [AccountId : AccountIds, Purpose : Purposes,
   Amount : {a \in (0 - maxAmt)..maxAmt : a # 0}]

SeqsUpTo(S, n) == UNION {[1..k -> S] : k \in 0..n}

\* bodies of createTransactionRequest
Requests == SeqsUpTo(LinesOf(MaxAmt), MaxLines)
SeqRequests == SeqsUpTo(LinesOf(MaxAmt), MaxConcLines)
ConcRequests == SeqsUpTo(LinesOf(MaxConcAmt), MaxConcLines)

\* what the JSON decoder lets through: any string as a purpose, and an account
\* id that is missing
DecodedPurposes == Purposes \cup {"bogus"}
DecodedAccountIds == AccountIds \cup {""}
DecodedLines ==
  [AccountId : DecodedAccountIds, Purpose : DecodedPurposes,
   Amount : {a \in (0 - MaxConcAmt)..MaxConcAmt : a # 0}]
DecodedRequests == SeqsUpTo(DecodedLines, MaxConcLines)

\* lines with any amount an int holds
IntLines ==
  [AccountId : AccountIds, Purpose : Purposes,
   Amount : {a \in MinInt..MaxInt : a # 0}]
IntRequests == SeqsUpTo(IntLines, MaxLines)

\* lines with the smallest and the largest amounts
ExtremeLines ==
  [AccountId : AccountIds, Purpose : Purposes, Amount : {MinInt, -1, 1, MaxInt}]
ExtremeRequests == SeqsUpTo(ExtremeLines, MaxConcLines)

\* transaction ids a caller of the repository may supply: the id of an earlier
\* call or a new one
TxIds == 1..(started + 1)

NoTx == [ID |-> 0, Lines |-> <<>>]
NoPend == [hdr |-> <<>>, lines |-> <<>>]
NoRet == [kind |-> "none", account |-> ""]
\* what a request returned: the kind of error ("ok" for nil), the account the
\* error names, and whether the error carries the outcome of tx.Rollback()
NoErr == [kind |-> "none", account |-> "", rollback |-> FALSE]
NoSnap == [rows |-> <<>>, lines |-> <<>>]
NoChk == [accounts |-> <<>>, tx |-> NoTx, ret |-> NoRet, applied |-> FALSE]

-----------------------------------------------------------------------------
(* transactions.go *)

\* TransactionPurpose.validate: TRUE when it returns nil
TransactionPurpose_validate(p) ==
  p \in {"achcredit", "achdebit", "fee", "interest", "transfer", "wire"}
\* addition of int: the result wraps around
wrap(x) == ((x - MinInt) % (2 ^ IntBits)) + MinInt

\* sum += t.Lines[i].Amount, from line k on
RECURSIVE sumLoop(_, _, _)
sumLoop(lines, k, sum) ==
  IF k > Len(lines) THEN sum
  ELSE sumLoop(lines, k + 1, wrap(sum + lines[k].Amount))

SumAmounts(lines) == sumLoop(lines, 1, 0)

\* validate that lets a transaction with a positive sum pass
validate_PositiveSumPasses(t) == SumAmounts(t.Lines) >= 0

\* transaction.validate: TRUE when it returns nil
validate(t) == SumAmounts(t.Lines) = 0

\* createTransactionRequest.asTransaction
asTransaction(lines, id) == [ID |-> id, Lines |-> lines]

\* grabAccountIds: the account id of every line
grabAccountIds(lines) == {lines[k].AccountId : k \in 1..Len(lines)}

\* checkBalance, inner loop: the first line of the account decides
RECURSIVE checkLines(_, _, _)
checkLines(acct, lines, j) ==
  IF j > Len(lines) THEN [kind |-> "nolines", account |-> acct.ID]
  ELSE IF acct.ID = lines[j].AccountId
       THEN IF acct.Balance < lines[j].Amount
            THEN [kind |-> "insufficient", account |-> acct.ID]
            ELSE [kind |-> "ok", account |-> ""]
       ELSE checkLines(acct, lines, j + 1)

\* checkBalance, outer loop, that also checks the accounts whose balance is 0
RECURSIVE checkAccounts_ZeroBalanceChecked(_, _, _)
checkAccounts_ZeroBalanceChecked(as, t, k) ==
  IF k > Len(as) THEN [kind |-> "ok", account |-> ""]
  ELSE IF as[k].Balance >= 0
       THEN LET r == checkLines(as[k], t.Lines, 1)
            IN IF r.kind = "ok" THEN checkAccounts_ZeroBalanceChecked(as, t, k + 1)
               ELSE r
       ELSE checkAccounts_ZeroBalanceChecked(as, t, k + 1)
\* checkBalance, outer loop over the resolved accounts
RECURSIVE checkAccounts(_, _, _)
checkAccounts(as, t, k) ==
  IF k > Len(as) THEN [kind |-> "ok", account |-> ""]
  ELSE IF as[k].Balance > 0
       THEN LET r == checkLines(as[k], t.Lines, 1)
            IN IF r.kind = "ok" THEN checkAccounts(as, t, k + 1) ELSE r
       ELSE checkAccounts(as, t, k + 1)

\* checkBalance that takes one resolved account for enough
checkBalance_OneAccountEnough(as, t) ==
  IF Len(as) < 1 \/ Len(t.Lines) = 0
  THEN [kind |-> "invalid", account |-> ""]
  ELSE checkAccounts(as, t, 1)
checkBalance(as, t) ==
  IF Len(as) < 2 \/ Len(t.Lines) = 0
  THEN [kind |-> "invalid", account |-> ""]
  ELSE checkAccounts(as, t, 1)

-----------------------------------------------------------------------------
(* Rows *)

HeaderRow(t) == [transaction_id |-> t.ID, deleted_at |-> NULL]

\* a line row written with the sign of its amount turned
LineRow_SignTurned(t, k, ts) ==
  [transaction_id |-> t.ID, account_id |-> t.Lines[k].AccountId,
   purpose |-> t.Lines[k].Purpose, amount |-> 0 - t.Lines[k].Amount,
   created_at |-> ts, deleted_at |-> NULL]

LineRow(t, k, ts) ==
  [transaction_id |-> t.ID, account_id |-> t.Lines[k].AccountId,
   purpose |-> t.Lines[k].Purpose, amount |-> t.Lines[k].Amount,
   created_at |-> ts, deleted_at |-> NULL]

\* a rollback that keeps the rows written so far
Rollback_KeepsRows(table, written) == table \o written

\* tx.Rollback(): what the table holds once the rows written in the database
\* transaction are rolled back
Rollback(table, written) == table

\* a commit that overwrites the table with the rows written
CommitRows_Overwrites(table, written) == written

\* tx.Commit()
CommitRows(table, written) == table \o written

-----------------------------------------------------------------------------
(* Queries of sqliteTransactionRepository *)

RECURSIVE SumRows(_)
SumRows(rows) ==
  IF rows = <<>> THEN 0 ELSE Head(rows).amount + SumRows(Tail(rows))

\* getAccountBalance without the filter deleted_at is null
getAccountBalance_DeletedCounted(lns, accountId) ==
  SumRows(SelectSeq(lns, LAMBDA r : r.account_id = accountId))
\* select coalesce(sum(amount), 0) from transaction_lines
\*   where account_id = ? and deleted_at is null
getAccountBalance(lns, accountId) ==
  SumRows(SelectSeq(lns, LAMBDA r : r.account_id = accountId /\ r.deleted_at = NULL))

\* getTransaction: header (limit 1) and the lines of one transaction id
getTransaction(hdrs, lns, transactionId) ==
  LET h == SelectSeq(hdrs, LAMBDA r : r.transaction_id = transactionId
                                       /\ r.deleted_at = NULL)
      l == SelectSeq(lns, LAMBDA r : r.transaction_id = transactionId
                                      /\ r.deleted_at = NULL)
  IN IF h = <<>>
     THEN [ok |-> FALSE, ID |-> transactionId, Lines |-> <<>>]
     ELSE [ok |-> TRUE, ID |-> transactionId,
           Lines |-> [k \in 1..Len(l) |->
                        [AccountId |-> l[k].account_id, Purpose |-> l[k].purpose,
                         Amount |-> l[k].amount]]]

\* select distinct transaction_id ... where account_id = ?: SQLite scans the
\* table in rowid order and a transaction id takes the created_at of its first
\* scanned row as its sort key
RECURSIVE distinctIds(_, _)
distinctIds(rows, seen) ==
  IF rows = <<>> THEN <<>>
  ELSE IF Head(rows).transaction_id \in seen
       THEN distinctIds(Tail(rows), seen)
       ELSE <<[id |-> Head(rows).transaction_id, key |-> Head(rows).created_at]>>
            \o distinctIds(Tail(rows), seen \cup {Head(rows).transaction_id})

\* order by created_at desc
RECURSIVE orderDesc(_)
orderDesc(s) ==
  IF s = <<>> THEN <<>>
  ELSE LET m == CHOOSE k \in 1..Len(s) : \A n \in 1..Len(s) : s[n].key <= s[k].key
       IN <<s[m]>> \o orderDesc(SelectSeq(s, LAMBDA e : e # s[m]))

\* getAccountTransactions: the ids, then getTransaction for each
getAccountTransactions(hdrs, lns, accountId) ==
  LET ids == orderDesc(distinctIds(
               SelectSeq(lns, LAMBDA r : r.account_id = accountId), {}))
      ts == [k \in 1..Len(ids) |-> getTransaction(hdrs, lns, ids[k].id)]
  IN IF \E k \in 1..Len(ts) : ~ts[k].ok
     THEN [ok |-> FALSE, transactions |-> <<>>]
     ELSE [ok |-> TRUE, transactions |-> ts]

-----------------------------------------------------------------------------
(* sqliteAccountRepository *)

\* GetAccounts without the filter account_id in (...)
GetAccounts_EveryRow(accountIDs) ==
  [k \in 1..Len(accounts) |->
     [ID |-> accounts[k],
      Balance |-> getAccountBalance(transaction_lines, accounts[k])]]
\* GetAccounts: the rows of accounts whose id is asked for, each with its balance
GetAccounts(accountIDs) ==
  LET rows == SelectSeq(accounts, LAMBDA a : a \in accountIDs)
  IN [k \in 1..Len(rows) |->
        [ID |-> rows[k], Balance |-> getAccountBalance(transaction_lines, rows[k])]]

\* CreateAccount: account_id is the primary key of accounts
CreateAccount(a) ==
  /\ \A k \in 1..Len(accounts) : accounts[k] # a
  /\ accounts' = Append(accounts, a)
  /\ UNCHANGED <<transactions, transaction_lines, pc, tx, accs, pend, i, err, now,
                 started, leaked, chk, snap>>


-----------------------------------------------------------------------------
(* The HTTP handler createTransaction *)

\* SQLite's write lock: held by the database transaction that has written
WriteLocked == leaked \/ \E q \in Procs : pend[q].hdr # <<>>

Finish(p, e) ==
  /\ pc' = [pc EXCEPT ![p] = "done"]
  /\ err' = [err EXCEPT ![p] = e]

\* base.ID(): an id no transaction has had
NewID == started + 1

\* Decode the request, resolve the accounts of its lines with their balances
\* (one read-only database transaction) and check the balances
Handler(p, reqs, max) ==
  /\ pc[p] = "idle"
  /\ started < max
  /\ \E lines \in reqs :
       LET t == asTransaction(lines, NewID)
           a == GetAccounts(grabAccountIds(t.Lines))
           r == checkBalance(a, t)
       IN /\ tx' = [tx EXCEPT ![p] = t]
          /\ accs' = [accs EXCEPT ![p] = a]
          /\ IF r.kind = "ok"
             THEN pc' = [pc EXCEPT ![p] = "create"] /\ err' = err
             ELSE Finish(p, [kind |-> r.kind, account |-> r.account, rollback |-> FALSE])
  /\ started' = started + 1
  /\ UNCHANGED <<accounts, transactions, transaction_lines, pend, i, now, leaked,
                 chk, snap>>

\* accountRepo.GetAccounts returns an error
HandlerGetAccountsFails(p, reqs, max) ==
  /\ pc[p] = "idle"
  /\ started < max
  /\ \E lines \in reqs :
       /\ lines # <<>>
       /\ tx' = [tx EXCEPT ![p] = asTransaction(lines, NewID)]
  /\ Finish(p, [kind |-> "accounts", account |-> "", rollback |-> FALSE])
  /\ started' = started + 1
  /\ UNCHANGED <<accounts, transactions, transaction_lines, accs, pend, i, now,
                 leaked, chk, snap>>

\* The handler returns and the next request may come
Return(p) ==
  /\ pc[p] = "done"
  /\ pc' = [pc EXCEPT ![p] = "idle"]
  /\ tx' = [tx EXCEPT ![p] = NoTx]
  /\ accs' = [accs EXCEPT ![p] = <<>>]
  /\ i' = [i EXCEPT ![p] = 0]
  /\ err' = [err EXCEPT ![p] = NoErr]
  /\ UNCHANGED <<accounts, transactions, transaction_lines, pend, now, started,
                 leaked, chk, snap>>

-----------------------------------------------------------------------------
(* sqliteAccountRepository.GetAccounts, statement by statement *)

\* r.db.Begin() and the query on accounts: the first statement of the
\* database transaction fixes the committed state all its statements read
GetAccountsQuery(p, accountIDs) ==
  /\ pc[p] = "idle"
  /\ accountIDs # {}
  /\ pc' = [pc EXCEPT ![p] = "rows"]
  /\ snap' = [snap EXCEPT ![p] =
                [rows |-> SelectSeq(accounts, LAMBDA a : a \in accountIDs),
                 lines |-> transaction_lines]]
  /\ UNCHANGED <<accounts, transactions, transaction_lines, tx, accs, pend, i, err,
                 now, started, leaked, chk>>

\* getAccountBalance read on a connection outside the database transaction
getAccountBalanceTx_OtherConnection(p, accountId) ==
  getAccountBalance(transaction_lines, accountId)

\* r.transactionRepo.getAccountBalance(tx, a.ID): the balance query runs in
\* the database transaction of the call
getAccountBalanceTx(p, accountId) == getAccountBalance(snap[p].lines, accountId)

\* rows.Next(): the next row of accounts and its balance
GetAccountsRow(p) ==
  /\ pc[p] = "rows"
  /\ Len(accs[p]) < Len(snap[p].rows)
  /\ LET id == snap[p].rows[Len(accs[p]) + 1]
     IN accs' = [accs EXCEPT ![p] =
                   Append(@, [ID |-> id, Balance |-> getAccountBalanceTx(p, id)])]
  /\ UNCHANGED <<accounts, transactions, transaction_lines, pc, tx, pend, i, err,
                 now, started, leaked, chk, snap>>

\* a statement of the call returns an error: rollback, no accounts returned
GetAccountsFail(p) ==
  /\ pc[p] = "rows"
  /\ accs' = [accs EXCEPT ![p] = <<>>]
  /\ snap' = [snap EXCEPT ![p] = NoSnap]
  /\ Finish(p, [kind |-> "accounts", account |-> "", rollback |-> TRUE])
  /\ UNCHANGED <<accounts, transactions, transaction_lines, tx, pend, i, now,
                 started, leaked, chk>>

\* tx.Commit() after the last row: the accounts are returned
GetAccountsCommit(p) ==
  /\ pc[p] = "rows"
  /\ Len(accs[p]) = Len(snap[p].rows)
  /\ snap' = [snap EXCEPT ![p] = NoSnap]
  /\ Finish(p, [kind |-> "ok", account |-> "", rollback |-> FALSE])
  /\ UNCHANGED <<accounts, transactions, transaction_lines, tx, accs, pend, i, now,
                 started, leaked, chk>>
-----------------------------------------------------------------------------
(* sqliteTransactionRepository.createTransaction *)

\* A caller other than the handler passes a transaction of its own
DirectCall(p, reqs, max) ==
  /\ pc[p] = "idle"
  /\ started < max
  /\ \E id \in TxIds, lines \in reqs :
       tx' = [tx EXCEPT ![p] = [ID |-> id, Lines |-> lines]]
  /\ pc' = [pc EXCEPT ![p] = "create"]
  /\ started' = started + 1
  /\ UNCHANGED <<accounts, transactions, transaction_lines, accs, pend, i, err, now,
                 leaked, chk, snap>>

\* t.validate(), then r.db.Begin()
Begin(p) ==
  /\ pc[p] = "create"
  /\ IF validate(tx[p])
     THEN pc' = [pc EXCEPT ![p] = "header"] /\ err' = err
     ELSE Finish(p, [kind |-> "validate", account |-> "", rollback |-> FALSE])
  /\ UNCHANGED <<accounts, transactions, transaction_lines, tx, accs, pend, i, now,
                 started, leaked, chk, snap>>

\* r.db.Begin() returns an error
FailBegin(p) ==
  /\ pc[p] = "create"
  /\ validate(tx[p])
  /\ Finish(p, [kind |-> "begin", account |-> "", rollback |-> FALSE])
  /\ UNCHANGED <<accounts, transactions, transaction_lines, tx, accs, pend, i, now,
                 started, leaked, chk, snap>>

\* The schema declares transactions(transaction_id primart key, ...): "primart
\* key" is read as the column's type name, so the table has no primary key
TransactionIdIsKey == FALSE

\* the insert of a header row would break the table's key
KeyViolation(t) ==
  /\ TransactionIdIsKey
  /\ \E k \in 1..Len(transactions) : transactions[k].transaction_id = t.ID

\* insert into transactions: the first write takes the write lock
InsertHeader(p) ==
  /\ pc[p] = "header"
  /\ ~WriteLocked
  /\ ~KeyViolation(tx[p])
  /\ pend' = [pend EXCEPT ![p] = [hdr |-> <<HeaderRow(tx[p])>>, lines |-> <<>>]]
  /\ i' = [i EXCEPT ![p] = 1]
  /\ pc' = [pc EXCEPT ![p] = "lines"]
  /\ UNCHANGED <<accounts, transactions, transaction_lines, tx, accs, err, now,
                 started, leaked, chk, snap>>

\* Prepare or Exec of the header fails (the database is busy, for one): rollback
FailHeader(p) ==
  /\ pc[p] = "header"
  /\ transactions' = Rollback(transactions, pend[p].hdr)
  /\ transaction_lines' = Rollback(transaction_lines, pend[p].lines)
  /\ pend' = [pend EXCEPT ![p] = NoPend]
  /\ Finish(p, [kind |-> "header", account |-> "", rollback |-> TRUE])
  /\ UNCHANGED <<accounts, tx, accs, i, now, started, leaked, chk, snap>>

\* insert into transaction_lines, line i of t.Lines
InsertLine(p) ==
  /\ pc[p] = "lines"
  /\ i[p] <= Len(tx[p].Lines)
  /\ pend' = [pend EXCEPT ![p].lines = Append(@, LineRow(tx[p], i[p], now))]
  /\ now' = now + 1
  /\ i' = [i EXCEPT ![p] = @ + 1]
  /\ UNCHANGED <<accounts, transactions, transaction_lines, pc, tx, accs, err,
                 started, leaked, chk, snap>>

\* Exec of line i fails: rollback
FailLineExec(p) ==
  /\ pc[p] = "lines"
  /\ i[p] <= Len(tx[p].Lines)
  /\ now' = now + 1
  /\ transactions' = Rollback(transactions, pend[p].hdr)
  /\ transaction_lines' = Rollback(transaction_lines, pend[p].lines)
  /\ pend' = [pend EXCEPT ![p] = NoPend]
  /\ Finish(p, [kind |-> "line", account |-> tx[p].Lines[i[p]].AccountId,
               rollback |-> TRUE])
  /\ UNCHANGED <<accounts, tx, accs, i, started, leaked, chk, snap>>

\* Prepare of line i fails: stmt is nil and stmt.Close() panics before
\* tx.Rollback() is reached.  The database transaction is never ended: its rows
\* stay invisible and it keeps the write lock
FailLinePrepare(p) ==
  /\ pc[p] = "lines"
  /\ i[p] <= Len(tx[p].Lines)
  /\ leaked' = TRUE
  /\ pend' = [pend EXCEPT ![p] = NoPend]
  /\ Finish(p, [kind |-> "panic", account |-> tx[p].Lines[i[p]].AccountId,
               rollback |-> FALSE])
  /\ UNCHANGED <<accounts, transactions, transaction_lines, tx, accs, i, now,
                 started, chk, snap>>

\* a commit that does not wait for the last line insert
Commit_BeforeLastLine(p) ==
  /\ pc[p] = "lines"
  /\ transactions' = CommitRows(transactions, pend[p].hdr)
  /\ transaction_lines' = CommitRows(transaction_lines, pend[p].lines)
  /\ pend' = [pend EXCEPT ![p] = NoPend]
  /\ Finish(p, [kind |-> "ok", account |-> "", rollback |-> FALSE])
  /\ UNCHANGED <<accounts, tx, accs, i, now, started, leaked, chk, snap>>
\* tx.Commit(): the written rows become visible together
Commit(p) ==
  /\ pc[p] = "lines"
  /\ i[p] > Len(tx[p].Lines)
  /\ transactions' = CommitRows(transactions, pend[p].hdr)
  /\ transaction_lines' = CommitRows(transaction_lines, pend[p].lines)
  /\ pend' = [pend EXCEPT ![p] = NoPend]
  /\ Finish(p, [kind |-> "ok", account |-> "", rollback |-> FALSE])
  /\ UNCHANGED <<accounts, tx, accs, i, now, started, leaked, chk, snap>>

\* tx.Commit() returns an error: the driver ends the database transaction
\* without its rows; createTransaction returns without calling tx.Rollback()
FailCommit(p) ==
  /\ pc[p] = "lines"
  /\ i[p] > Len(tx[p].Lines)
  /\ pend' = [pend EXCEPT ![p] = NoPend]
  /\ Finish(p, [kind |-> "commit", account |-> "", rollback |-> FALSE])
  /\ UNCHANGED <<accounts, transactions, transaction_lines, tx, accs, i, now,
                 started, leaked, chk, snap>>

createTransaction(p) ==
  \/ Begin(p)
  \/ FailBegin(p)
  \/ InsertHeader(p)
  \/ FailHeader(p)
  \/ InsertLine(p)
  \/ FailLineExec(p)
  \/ FailLinePrepare(p)
  \/ Commit(p)
  \/ FailCommit(p)

-----------------------------------------------------------------------------
(* Soft deletion *)

\* update transactions set deleted_at = now: the header of a transaction is
\* marked as deleted, the row stays
SoftDeleteHeader(k) ==
  /\ transactions[k].deleted_at = NULL
  /\ transactions' = [transactions EXCEPT ![k].deleted_at = <<now>>]
  /\ now' = now + 1
  /\ UNCHANGED <<accounts, transaction_lines, pc, tx, accs, pend, i, err, started,
                 leaked, chk, snap>>

\* update transaction_lines set deleted_at = now: one line is marked as deleted
SoftDeleteLine(n) ==
  /\ transaction_lines[n].deleted_at = NULL
  /\ transaction_lines' = [transaction_lines EXCEPT ![n].deleted_at = <<now>>]
  /\ now' = now + 1
  /\ UNCHANGED <<accounts, transactions, pc, tx, accs, pend, i, err, started,
                 leaked, chk, snap>>
-----------------------------------------------------------------------------
(* checkBalance on its own *)

\* resolved accounts: rows of accounts, whose account_id is the primary key
ChkAccounts ==
  {a \in SeqsUpTo([ID : AccountIds, Balance : (0 - MaxBal)..MaxBal], MaxChkAccounts) :
     \A k, n \in 1..Len(a) : k # n => a[k].ID # a[n].ID}

ApplyCheckBalance ==
  /\ ~chk.applied
  /\ chk' = [chk EXCEPT !.ret = checkBalance(chk.accounts, chk.tx),
                        !.applied = TRUE]
  /\ UNCHANGED ledgerVars

\* validate applied to one transaction
ApplyValidate ==
  /\ ~chk.applied
  /\ chk' = [chk EXCEPT
               !.ret = [kind |-> IF validate(chk.tx) THEN "ok" ELSE "validate",
                        account |-> ""],
               !.applied = TRUE]
  /\ UNCHANGED ledgerVars

-----------------------------------------------------------------------------
(* Specifications *)

InitLedger ==
  /\ accounts = <<>>
  /\ transactions = <<>>
  /\ transaction_lines = <<>>
  /\ pc = [p \in Procs |-> "idle"]
  /\ tx = [p \in Procs |-> NoTx]
  /\ accs = [p \in Procs |-> <<>>]
  /\ pend = [p \in Procs |-> NoPend]
  /\ i = [p \in Procs |-> 0]
  /\ err = [p \in Procs |-> NoErr]
  /\ now = 1
  /\ started = 0
  /\ leaked = FALSE
  /\ snap = [p \in Procs |-> NoSnap]

Init == InitLedger /\ chk = NoChk

\* Two requests at a time through the handler
Next ==
  \/ \E a \in AccountIds : CreateAccount(a)
  \/ \E p \in Procs :
       \/ Handler(p, ConcRequests, MaxConcTx)
       \/ HandlerGetAccountsFails(p, ConcRequests, MaxConcTx)
       \/ createTransaction(p)
       \/ Return(p)

Spec == Init /\ [][Next]_vars

\* One request at a time through the handler
NextSeq ==
  \/ \E a \in AccountIds : CreateAccount(a)
  \/ Handler(1, SeqRequests, MaxTx)
  \/ HandlerGetAccountsFails(1, SeqRequests, MaxTx)
  \/ createTransaction(1)
  \/ Return(1)

SpecSeq == Init /\ [][NextSeq]_vars

\* One request at a time through the handler, and rows marked as deleted
NextDelete ==
  \/ NextSeq
  \/ \E k \in 1..Len(transactions) : SoftDeleteHeader(k)
  \/ \E n \in 1..Len(transaction_lines) : SoftDeleteLine(n)

SpecDelete == Init /\ [][NextDelete]_vars

\* GetAccounts of one caller, statement by statement, while requests of
\* another are posted through the handler
NextSnapshot ==
  \/ \E a \in AccountIds : CreateAccount(a)
  \/ \E ids \in SUBSET AccountIds : GetAccountsQuery(1, ids)
  \/ GetAccountsRow(1)
  \/ GetAccountsFail(1)
  \/ GetAccountsCommit(1)
  \/ Return(1)
  \/ Handler(2, ConcRequests, MaxConcTx)
  \/ HandlerGetAccountsFails(2, ConcRequests, MaxConcTx)
  \/ createTransaction(2)
  \/ Return(2)

SpecSnapshot == Init /\ [][NextSnapshot]_vars

\* One caller at a time of the repository's createTransaction
NextRepo ==
  \/ DirectCall(1, Requests, MaxTx)
  \/ createTransaction(1)
  \/ Return(1)

SpecRepo == Init /\ [][NextRepo]_vars

\* One caller at a time of the repository's createTransaction, with lines as
\* the JSON decoder may hand them over
NextDecoded ==
  \/ DirectCall(1, DecodedRequests, MaxTx)
  \/ createTransaction(1)
  \/ Return(1)

SpecDecoded == Init /\ [][NextDecoded]_vars
\* checkBalance applied to one input
InitCheck ==
  /\ InitLedger
  /\ chk \in {[accounts |-> a, tx |-> asTransaction(l, 1), ret |-> NoRet,
               applied |-> FALSE] : a \in ChkAccounts, l \in Requests}

NextCheck == ApplyCheckBalance

SpecCheck == InitCheck /\ [][NextCheck]_vars

\* validate applied to one input
InitValidate ==
  /\ InitLedger
  /\ chk \in {[accounts |-> <<>>, tx |-> asTransaction(l, 1), ret |-> NoRet,
               applied |-> FALSE] : l \in IntRequests}

NextValidate == ApplyValidate

SpecValidate == InitValidate /\ [][NextValidate]_vars

\* One request through the handler, with amounts at the limits of int
NextExtreme ==
  \/ \E a \in AccountIds : CreateAccount(a)
  \/ Handler(1, ExtremeRequests, MaxIntTx)
  \/ HandlerGetAccountsFails(1, ExtremeRequests, MaxIntTx)
  \/ createTransaction(1)
  \/ Return(1)

SpecExtreme == Init /\ [][NextExtreme]_vars

\* The two callers of checkBalance: the handler, one request at a time, or a
\* caller that passes accounts and a transaction of its own
InitCallers ==
  /\ InitLedger
  /\ chk \in {NoChk} \cup
             {[accounts |-> a, tx |-> asTransaction(l, 1), ret |-> NoRet,
               applied |-> FALSE] : a \in ChkAccounts, l \in Requests}

NextCallers ==
  \/ chk = NoChk /\ NextSeq
  \/ chk # NoChk /\ ApplyCheckBalance

SpecCallers == InitCallers /\ [][NextCallers]_vars


-----------------------------------------------------------------------------
(* Vocabulary of the properties *)

RECURSIVE SumFor(_, _)
SumFor(lines, a) ==
  IF lines = <<>> THEN 0
  ELSE (IF Head(lines).AccountId = a THEN Head(lines).Amount ELSE 0)
       + SumFor(Tail(lines), a)

Count(s, x) == Cardinality({k \in 1..Len(s) : s[k] = x})

\* the same lines, whatever their order
SameLines(s, t) ==
  /\ Len(s) = Len(t)
  /\ \A k \in 1..Len(s) : Count(s, s[k]) = Count(t, s[k])

Posted(p) == pc[p] = "done" /\ err[p].kind = "ok"

RowsOf(id) ==
  Cardinality({k \in 1..Len(transactions) : transactions[k].transaction_id = id})
  + Cardinality({k \in 1..Len(transaction_lines) :
                   transaction_lines[k].transaction_id = id})

-----------------------------------------------------------------------------
C2_AllOrNothing ==
  [][\/ /\ transactions' = transactions
        /\ transaction_lines' = transaction_lines
     \/ \E p \in Procs :
          LET n == Len(transaction_lines)
              t == tx[p]
          IN /\ pc'[p] = "done" /\ err'[p].kind = "ok"
             /\ Len(transactions') = Len(transactions) + 1
             /\ SubSeq(transactions', 1, Len(transactions)) = transactions
             /\ transactions'[Len(transactions')].transaction_id = t.ID
             /\ Len(transaction_lines') = n + Len(t.Lines)
             /\ SubSeq(transaction_lines', 1, n) = transaction_lines
             /\ \A k \in 1..Len(t.Lines) :
                  /\ transaction_lines'[n + k].transaction_id = t.ID
                  /\ transaction_lines'[n + k].account_id = t.Lines[k].AccountId
                  /\ transaction_lines'[n + k].purpose = t.Lines[k].Purpose
                  /\ transaction_lines'[n + k].amount = t.Lines[k].Amount
    ]_vars

\* the insert of the third line of a three-line transaction failed and no row
\* of the transaction is visible
C2_Witness ==
  \E p \in Procs :
    /\ pc[p] = "done" /\ err[p].kind = "line"
    /\ i[p] = 3 /\ Len(tx[p].Lines) = 3
    /\ RowsOf(tx[p].ID) = 0

(* C3: of two postings through the handler that debit the same account and  *)
(* were both checked against the same balance of it, a balance that covers  *)
(* either debit but not the two together, at most one is committed.         *)
C3_AtMostOneDebit ==
  \A p, q \in Procs : \A a \in AccountIds :
    (/\ p # q /\ Posted(p) /\ Posted(q)
     /\ SumFor(tx[p].Lines, a) < 0 /\ SumFor(tx[q].Lines, a) < 0)
    => ~ \E k \in 1..Len(accs[p]), n \in 1..Len(accs[q]) :
           /\ accs[p][k].ID = a /\ accs[q][n].ID = a
           /\ accs[p][k].Balance = accs[q][n].Balance
           /\ accs[p][k].Balance + SumFor(tx[p].Lines, a) >= 0
           /\ accs[q][n].Balance + SumFor(tx[q].Lines, a) >= 0
           /\ accs[p][k].Balance + SumFor(tx[p].Lines, a) + SumFor(tx[q].Lines, a) < 0

(* C4: the commit of a posting changes the balance of every account by the  *)
(* sum of the amounts of the transaction's lines on that account, and by    *)
(* nothing for an account the transaction has no line on.                   *)
C4_BalanceAfterPosting ==
  [][\A p \in Procs :
       (pc[p] # "done" /\ pc'[p] = "done" /\ err'[p].kind = "ok") =>
         \A a \in AccountIds :
           getAccountBalance(transaction_lines', a)
             = getAccountBalance(transaction_lines, a) + SumFor(tx[p].Lines, a)
    ]_vars

\* a second posting with two lines on one account changed that account's balance
C4_Witness ==
  \E p \in Procs : \E a \in AccountIds :
    /\ Posted(p)
    /\ Len(transactions) = 2
    /\ Count([k \in 1..Len(tx[p].Lines) |-> tx[p].Lines[k].AccountId], a) = 2
    /\ SumFor(tx[p].Lines, a) # 0
    /\ getAccountBalance(transaction_lines, a) # SumFor(tx[p].Lines, a)

(* C5: checkBalance, for an account with a positive balance that is the     *)
(* only one with a positive balance and has one line in the transaction:    *)
(* when that line's amount is negative the result is the insufficient-funds *)
(* error naming the account exactly when the balance is smaller than the    *)
(* absolute value of the amount; when it is positive the result is never an *)
(* insufficient-funds error.                                                *)
C5_InsufficientFunds ==
  chk.applied =>
    \A k \in 1..Len(chk.accounts) : \A j \in 1..Len(chk.tx.Lines) :
      LET acct == chk.accounts[k]
          line == chk.tx.Lines[j]
      IN (/\ Len(chk.accounts) >= 2
          /\ acct.Balance > 0
          /\ \A n \in 1..Len(chk.accounts) : n # k => chk.accounts[n].Balance <= 0
          /\ line.AccountId = acct.ID
          /\ \A n \in 1..Len(chk.tx.Lines) :
               n # j => chk.tx.Lines[n].AccountId # acct.ID)
         => /\ line.Amount < 0 =>
                 ((chk.ret.kind = "insufficient" /\ chk.ret.account = acct.ID)
                    <=> acct.Balance < 0 - line.Amount)
            /\ line.Amount > 0 => chk.ret.kind # "insufficient"

(* C6: with one request at a time, a posting the handler accepted leaves no *)
(* account whose balance was positive before it with a negative balance.    *)
C6_NoOverdraft ==
  \A p \in Procs :
    Posted(p) =>
      \A k \in 1..Len(accs[p]) :
        accs[p][k].Balance > 0 =>
          getAccountBalance(transaction_lines, accs[p][k].ID) >= 0

(* C7: once createTransaction(t) has returned nil, getTransaction(t.ID)     *)
(* finds a transaction with that id whose lines are the lines of t, in any  *)
(* order, and so with the same total.                                       *)
C7_RoundTrip ==
  \A p \in Procs :
    Posted(p) =>
      LET r == getTransaction(transactions, transaction_lines, tx[p].ID)
      IN /\ r.ok
         /\ r.ID = tx[p].ID
         /\ SameLines(r.Lines, tx[p].Lines)
         /\ SumAmounts(r.Lines) = SumAmounts(tx[p].Lines)

(* C8: no two committed rows of transactions carry the same transaction id. *)
C8_UniqueTransactionIds ==
  \A k, n \in 1..Len(transactions) :
    k # n => transactions[k].transaction_id # transactions[n].transaction_id

(* C9: getAccountTransactions(a) lists every committed transaction with a   *)
(* line on a once, lists no other, gives each with all of its lines, and    *)
(* lists a transaction posted later before one posted earlier.              *)
C9_AccountTransactions ==
  \A a \in AccountIds :
    LET r == getAccountTransactions(transactions, transaction_lines, a)
        touching == {k \in 1..Len(transactions) :
                       \E n \in 1..Len(transaction_lines) :
                         /\ transaction_lines[n].transaction_id
                              = transactions[k].transaction_id
                         /\ transaction_lines[n].account_id = a}
        at(e) == CHOOSE k \in touching : transactions[k].transaction_id = e.ID
    IN /\ r.ok
       /\ Len(r.transactions) = Cardinality(touching)
       /\ \A k \in 1..Len(r.transactions) :
            /\ \E n \in touching :
                 transactions[n].transaction_id = r.transactions[k].ID
            /\ r.transactions[k]
                 = getTransaction(transactions, transaction_lines, r.transactions[k].ID)
       /\ \A k, n \in 1..Len(r.transactions) :
            k < n => at(r.transactions[k]) > at(r.transactions[n])

(* C10: the handler does not reject a transaction with lines and a zero sum *)
(* because none of the accounts its lines name has been created: such a     *)
(* posting ends committed or with an error of the database.                 *)
C10_UncreatedAccounts ==
  \A p \in Procs :
    (/\ pc[p] = "done"
     /\ tx[p].Lines # <<>>
     /\ SumAmounts(tx[p].Lines) = 0
     /\ accs[p] = <<>>)
    => err[p].kind \in {"ok", "accounts", "begin", "header", "line", "panic", "commit"}

-----------------------------------------------------------------------------
(* C11: a transaction with a line whose purpose is not one of achcredit,    *)
(* achdebit, fee, interest, transfer, wire, or whose account id is empty,   *)
(* is rejected by validate/createTransaction: no row of it is written       *)
(* inside a database transaction and the call does not return nil.          *)
InvalidLine(l) == ~TransactionPurpose_validate(l.Purpose) \/ l.AccountId = ""

C11_InvalidLineRejected ==
  \A p \in Procs :
    (\E k \in 1..Len(tx[p].Lines) : InvalidLine(tx[p].Lines[k])) =>
      /\ pend[p] = NoPend
      /\ ~Posted(p)
-----------------------------------------------------------------------------
(* C12: a transaction with zero lines is rejected by validate, and          *)
(* createTransaction writes no header row for it and does not return nil.   *)
C12_EmptyTransactionRejected ==
  \A p \in Procs :
    (pc[p] # "idle" /\ tx[p].Lines = <<>>) =>
      /\ pc[p] \in {"create", "done"}
      /\ pend[p].hdr = <<>>
      /\ ~Posted(p)
-----------------------------------------------------------------------------
(* C13: after any postings and soft deletions, getAccountTransactions of    *)
(* every account succeeds and returns only transactions whose header is not *)
(* marked as deleted, each with exactly its lines that are not marked as    *)
(* deleted; getTransaction of a transaction whose header is not marked does *)
(* the same; getAccountBalance is the sum of the account's unmarked lines.  *)
LiveHeader(id) ==
  \E k \in 1..Len(transactions) :
    transactions[k].transaction_id = id /\ transactions[k].deleted_at = NULL

LiveLines(id) ==
  SelectSeq(transaction_lines,
            LAMBDA r : r.transaction_id = id /\ r.deleted_at = NULL)

OnlyLive(t) ==
  /\ t.ok
  /\ LiveHeader(t.ID)
  /\ Len(t.Lines) = Len(LiveLines(t.ID))
  /\ \A k \in 1..Len(t.Lines) :
       /\ t.Lines[k].AccountId = LiveLines(t.ID)[k].account_id
       /\ t.Lines[k].Amount = LiveLines(t.ID)[k].amount

C13_SoftDeletedExcluded ==
  /\ \A a \in AccountIds :
       LET r == getAccountTransactions(transactions, transaction_lines, a)
       IN /\ r.ok
          /\ \A k \in 1..Len(r.transactions) : OnlyLive(r.transactions[k])
  /\ \A k \in 1..Len(transactions) :
       transactions[k].deleted_at = NULL =>
         OnlyLive(getTransaction(transactions, transaction_lines,
                                 transactions[k].transaction_id))
  /\ \A a \in AccountIds :
       getAccountBalance(transaction_lines, a) =
         SumRows(SelectSeq(transaction_lines,
                           LAMBDA r : r.account_id = a /\ r.deleted_at = NULL))

-----------------------------------------------------------------------------
(* C14: whenever a step of createTransaction fails after db.Begin (prepare  *)
(* or exec of the header, prepare or exec of a line, commit), tx.Rollback() *)
(* is called before the call returns, and the error returned carries the    *)
(* cause together with the outcome of that rollback; no database            *)
(* transaction is left open.                                                *)
PersistenceFailure(p) ==
  pc[p] = "done" /\ err[p].kind \in {"header", "line", "panic", "commit"}

C14_RollbackOnEveryFailure ==
  /\ \A p \in Procs : PersistenceFailure(p) => err[p].rollback
  /\ ~leaked
-----------------------------------------------------------------------------
(* C15: checkBalance never fails because of an account whose balance is 0   *)
(* or negative: an insufficient-funds or no-matching-line error always      *)
(* names an account with a positive balance, whatever lines the accounts    *)
(* with a balance of 0 or less have or lack.                                *)
HasLine(t, id) == \E j \in 1..Len(t.Lines) : t.Lines[j].AccountId = id

C15_NonPositiveBalanceNotBlocked ==
  (chk.applied /\ chk.ret.kind \in {"insufficient", "nolines"}) =>
    \E k \in 1..Len(chk.accounts) :
      /\ chk.accounts[k].ID = chk.ret.account
      /\ chk.accounts[k].Balance > 0

\* one account of balance 0 or less has a line above its balance, the other
\* has no line, and the check passed
C15_Witness ==
  /\ chk.applied /\ chk.ret.kind = "ok"
  /\ \E k, n \in 1..Len(chk.accounts) :
       /\ chk.accounts[k].Balance <= 0 /\ chk.accounts[n].Balance < 0
       /\ \E j \in 1..Len(chk.tx.Lines) :
            /\ chk.tx.Lines[j].AccountId = chk.accounts[k].ID
            /\ chk.tx.Lines[j].Amount > chk.accounts[k].Balance
       /\ ~HasLine(chk.tx, chk.accounts[n].ID)

-----------------------------------------------------------------------------
(* C16, as stated: whenever a resolved account with a positive balance has  *)
(* no line in the transaction, checkBalance returns the no-matching-line    *)
(* error naming such an account; and no request through the handler ends    *)
(* with that error.                                                         *)
LacksLine(k) ==
  chk.accounts[k].Balance > 0 /\ ~HasLine(chk.tx, chk.accounts[k].ID)

C16_NoMatchingLineWhenever ==
  /\ (chk.applied /\ \E k \in 1..Len(chk.accounts) : LacksLine(k)) =>
       /\ chk.ret.kind = "nolines"
       /\ \E k \in 1..Len(chk.accounts) :
            LacksLine(k) /\ chk.accounts[k].ID = chk.ret.account
  /\ \A p \in Procs : err[p].kind # "nolines"

(* C16, amended: the no-matching-line error always names a resolved account *)
(* with a positive balance and no line, and no request through the handler  *)
(* ends with it.  When such an account exists, checkBalance returns an      *)
(* error: invalid input if fewer than two accounts or no lines were given, *)
(* else insufficient funds for an account earlier in the list, else the     *)
(* no-matching-line error naming the first such account.                    *)
C16_NoMatchingLine ==
  /\ (chk.applied /\ chk.ret.kind = "nolines") =>
       \E k \in 1..Len(chk.accounts) :
         LacksLine(k) /\ chk.accounts[k].ID = chk.ret.account
  /\ (chk.applied /\ \E k \in 1..Len(chk.accounts) : LacksLine(k)) =>
       LET first == CHOOSE k \in 1..Len(chk.accounts) :
                      LacksLine(k) /\ \A n \in 1..(k - 1) : ~LacksLine(n)
       IN \/ /\ chk.ret.kind = "invalid"
             /\ Len(chk.accounts) < 2 \/ Len(chk.tx.Lines) = 0
          \/ /\ chk.ret.kind = "insufficient"
             /\ \E n \in 1..(first - 1) : chk.accounts[n].ID = chk.ret.account
          \/ /\ chk.ret.kind = "nolines"
             /\ chk.ret.account = chk.accounts[first].ID
  /\ \A p \in Procs : err[p].kind # "nolines"

\* the second of two accounts has a positive balance and no line; the first
\* has a positive balance and a line it can pay
C16_Witness ==
  /\ chk.applied /\ chk.ret.kind = "nolines"
  /\ Len(chk.accounts) = 2
  /\ chk.accounts[1].Balance > 0 /\ HasLine(chk.tx, chk.accounts[1].ID)
  /\ chk.ret.account = chk.accounts[2].ID

-----------------------------------------------------------------------------
(* C17: checkBalance returns the invalid-input error whenever fewer than    *)
(* two accounts are given or the transaction has no lines, whatever the     *)
(* balances, and never when there are two accounts and one line or more.    *)
C17_InvalidInput ==
  chk.applied =>
    (chk.ret.kind = "invalid" <=>
       (Len(chk.accounts) < 2 \/ Len(chk.tx.Lines) = 0))

\* one account whose only line is above its positive balance: invalid input,
\* not insufficient funds
C17_Witness ==
  /\ chk.applied /\ chk.ret.kind = "invalid"
  /\ Len(chk.accounts) = 1 /\ chk.accounts[1].Balance = 1
  /\ Len(chk.tx.Lines) = 1
  /\ chk.tx.Lines[1].AccountId = chk.accounts[1].ID
  /\ chk.tx.Lines[1].Amount = 2
-----------------------------------------------------------------------------
(* C18: through the handler, a transaction whose amounts do not sum to zero *)
(* is rejected before the database is touched: no account row and no        *)
(* balance has been read for it, and no row of it has been written.         *)
C18_ValidationBeforeDatabase ==
  \A p \in Procs :
    (pc[p] # "idle" /\ SumAmounts(tx[p].Lines) # 0) =>
      /\ accs[p] = <<>>
      /\ pend[p] = NoPend
-----------------------------------------------------------------------------
(* C19: within one createTransaction call the header is inserted before any *)
(* line, every line is inserted before the commit, and the tables that      *)
(* other database transactions read change only at that commit, by exactly  *)
(* the rows of the call: a concurrent reader's balances hold no row that is *)
(* not committed.                                                           *)
C19_InsertOrderAndIsolation ==
  [][\A p \in Procs :
       /\ Len(pend'[p].lines) > Len(pend[p].lines) => pend[p].hdr # <<>>
       /\ (pend[p].hdr = <<>> /\ pend'[p].hdr # <<>>) =>
            (pend[p].lines = <<>> /\ pend'[p].lines = <<>>)
       /\ (pend[p].hdr # <<>> /\ pend'[p].hdr # <<>>) =>
            (transactions' = transactions
             /\ transaction_lines' = transaction_lines)
       /\ (pc[p] # "done" /\ pc'[p] = "done" /\ err'[p].kind = "ok") =>
            /\ Len(pend[p].hdr) = 1
            /\ Len(pend[p].lines) = Len(tx[p].Lines)
            /\ transactions' = transactions \o pend[p].hdr
            /\ transaction_lines' = transaction_lines \o pend[p].lines
       /\ (transactions' # transactions \/ transaction_lines' # transaction_lines)
            => \E q \in Procs : pc[q] # "done" /\ pc'[q] = "done"
                                /\ err'[q].kind = "ok"
       /\ (pc[p] = "idle" /\ pc'[p] # "idle") =>
            \A k \in 1..Len(accs'[p]) :
              accs'[p][k].Balance =
                SumRows(SelectSeq(transaction_lines,
                                  LAMBDA r : r.account_id = accs'[p][k].ID))
    ]_vars

\* a request has written its header and a line on an account and has not
\* committed, while a later request holds that account as resolved
C19_Witness ==
  \E p, q \in Procs :
    /\ p # q
    /\ pc[p] = "lines" /\ pend[p].hdr # <<>> /\ pend[p].lines # <<>>
    /\ pc[q] = "create" /\ tx[q].ID > tx[p].ID
    /\ \E k \in 1..Len(accs[q]) : accs[q][k].ID = pend[p].lines[1].account_id
    /\ RowsOf(tx[p].ID) = 0
-----------------------------------------------------------------------------
(* C20: the balances one GetAccounts call returns all belong to one         *)
(* committed state of the ledger: there is a point between two committed    *)
(* postings such that every balance is the sum of the account's lines       *)
(* committed up to that point, so no posting is seen in part, also when     *)
(* postings commit while the call runs.                                     *)
BetweenPostings(n) ==
  \A a \in 1..n, b \in (n + 1)..Len(transaction_lines) :
    transaction_lines[a].transaction_id # transaction_lines[b].transaction_id

BalanceUpTo(n, id) ==
  SumRows(SelectSeq(SubSeq(transaction_lines, 1, n),
                    LAMBDA r : r.account_id = id))

C20_ConsistentSnapshot ==
  \A p \in Procs :
    \E n \in 0..Len(transaction_lines) :
      /\ BetweenPostings(n)
      /\ \A k \in 1..Len(accs[p]) :
           accs[p][k].Balance = BalanceUpTo(n, accs[p][k].ID)

\* the call has read two balances, the second one after a posting on that
\* account was committed that the call does not see
C20_Witness ==
  /\ pc[1] = "rows"
  /\ Len(accs[1]) = 2
  /\ snap[1].lines # transaction_lines
  /\ accs[1][2].Balance # getAccountBalance(transaction_lines, accs[1][2].ID)
  /\ accs[1][1].Balance # getAccountBalance(transaction_lines, accs[1][1].ID)
-----------------------------------------------------------------------------
(* C21: getAccountBalance of an account is the sum of the amounts of the    *)
(* committed lines of that account that are not marked as deleted, and 0    *)
(* for an account without such lines; lines written in a database           *)
(* transaction that has not committed do not count.  The balances a         *)
(* request resolves are these sums at the time it reads them.               *)
RECURSIVE LiveSum(_, _)
LiveSum(rows, a) ==
  IF rows = <<>> THEN 0
  ELSE (IF Head(rows).account_id = a /\ Head(rows).deleted_at = NULL
        THEN Head(rows).amount ELSE 0)
       + LiveSum(Tail(rows), a)

C21_BalanceIsLiveSum ==
  [][/\ \A a \in AccountIds :
          getAccountBalance(transaction_lines, a) = LiveSum(transaction_lines, a)
     /\ \A p \in Procs :
          (pc[p] = "idle" /\ pc'[p] # "idle") =>
            \A k \in 1..Len(accs'[p]) :
              accs'[p][k].Balance = LiveSum(transaction_lines, accs'[p][k].ID)
    ]_vars

\* a request has resolved two accounts of one committed posting, one whose
\* line is marked as deleted and one whose line is not
C21_Witness ==
  \E p \in Procs :
    /\ pc[p] = "create"
    /\ \E k, m \in 1..Len(accs[p]) :
         /\ accs[p][k].Balance = 0
         /\ \E n \in 1..Len(transaction_lines) :
              /\ transaction_lines[n].account_id = accs[p][k].ID
              /\ transaction_lines[n].deleted_at # NULL
         /\ accs[p][m].Balance # 0
         /\ accs[p][m].Balance = LiveSum(transaction_lines, accs[p][m].ID)
-----------------------------------------------------------------------------
(* C22: the ledger is append-only.  Every step of createTransaction and of  *)
(* GetAccounts leaves every committed header and line row in place and      *)
(* unchanged; rows are only added, at the end, by a successful commit; a    *)
(* posting that fails or is rejected and every read leave both tables as    *)
(* they were.                                                               *)
IsPrefix(s, t) == Len(s) <= Len(t) /\ SubSeq(t, 1, Len(s)) = s

Commits(p) ==
  pc[p] = "lines" /\ pc'[p] = "done" /\ err'[p].kind = "ok"

C22_AppendOnly ==
  [][/\ IsPrefix(transactions, transactions')
     /\ IsPrefix(transaction_lines, transaction_lines')
     /\ (\A p \in Procs : ~Commits(p)) =>
          (transactions' = transactions
           /\ transaction_lines' = transaction_lines)
    ]_vars

\* after a committed posting another one has failed at a line, while a
\* GetAccounts call is reading its rows
C22_Witness ==
  /\ Len(transaction_lines) > 0
  /\ pc[2] = "done" /\ err[2].kind = "line"
  /\ pc[1] = "rows" /\ Len(accs[1]) = 1
-----------------------------------------------------------------------------
(* C23: money is conserved.  Without soft deletions, in every committed     *)
(* state the balances of all accounts add up to zero, whatever postings     *)
(* succeeded or failed before.                                              *)
TotalBalance ==
  LET RECURSIVE Total(_)
      Total(S) ==
        IF S = {} THEN 0
        ELSE LET a == CHOOSE x \in S : TRUE
             IN getAccountBalance(transaction_lines, a) + Total(S \ {a})
  IN Total({transaction_lines[n].account_id : n \in 1..Len(transaction_lines)})

C23_Conservation == TotalBalance = 0

-----------------------------------------------------------------------------
(* C24: validate accepts a transaction only if the sum of its line amounts, *)
(* taken without wrap-around, is zero.                                      *)
RECURSIVE TrueSum(_)
TrueSum(lines) ==
  IF lines = <<>> THEN 0 ELSE Head(lines).Amount + TrueSum(Tail(lines))

C24_NoWrapAroundAccepted ==
  (chk.applied /\ chk.ret.kind = "ok") => TrueSum(chk.tx.Lines) = 0
-----------------------------------------------------------------------------
(* C25: whether checkBalance accepts or rejects does not depend on the      *)
(* order of the lines: with the same accounts, every permutation of         *)
(* tx.Lines is accepted if and only if tx.Lines is.                         *)
Permuted(lines) ==
  {[k \in 1..Len(lines) |-> lines[f[k]]] :
     f \in {g \in [1..Len(lines) -> 1..Len(lines)] :
              \A k, n \in 1..Len(lines) : k # n => g[k] # g[n]}}

C25_LineOrderIrrelevant ==
  chk.applied =>
    \A l \in Permuted(chk.tx.Lines) :
      (checkBalance(chk.accounts, asTransaction(l, chk.tx.ID)).kind = "ok")
        <=> (chk.ret.kind = "ok")
=============================================================================
